---- MODULE Spec2Model ----
(***************************************************************************)
(* TMDS encoder / decoder of examples/03_HDMI_demo/tests/tmds_check.py.    *)
(*                                                                         *)
(* One TMDS object (field encode_cnt) is driven by a caller that makes one *)
(* Encode or Decode call at a time, as the replay loop of __main__ does:   *)
(* Encode a row, Decode the symbol that came back, go to the next row.     *)
(* Python integers are unbounded and their bitwise operators act on the    *)
(* infinite two's complement form, so negative arguments are modelled with *)
(* floor division and non-negative remainder.                              *)
(***************************************************************************)
EXTENDS Integers, Sequences, FiniteSets

\* How far beyond its documented domain an argument is drawn.
MaxOver == 1

ByteArgs == (0 - MaxOver)..(255 + MaxOver)
CtrlArgs == (0 - MaxOver)..(3 + MaxOver)
SymbolArgs == (0 - MaxOver)..(1023 + MaxOver)

VARIABLES
    encode_cnt,   \* TMDS.encode_cnt
    pc,           \* position of the caller: "idle", "returned", "checked"
    call,         \* the call just made: arguments, counter at entry, outcome
    q_in,         \* <<byte>> decoded from the returned symbol, <<>> if none
    stream_disp   \* ones minus zeros over the data symbols put on the wire
                  \* since construction or the last control period

vars == <<encode_cnt, pc, call, q_in, stream_disp>>

----------------------------------------------------------------------------
\* Python integer operators

\* a << n
Shl(a, n) == a * (2 ^ n)

\* ~a
BitNot(a) == (0 - a) - 1

RECURSIVE BitAnd(_, _)
\* a & b, for b >= 0 (every mask in the program is non-negative)
BitAnd(a, b) ==
    IF b = 0 THEN 0
    ELSE (a % 2) * (b % 2) + 2 * BitAnd(a \div 2, b \div 2)

RECURSIVE BitOr(_, _)
\* a | b, for a >= 0 and b >= 0
BitOr(a, b) ==
    IF a = 0 THEN b
    ELSE IF b = 0 THEN a
    ELSE (IF (a % 2) + (b % 2) > 0 THEN 1 ELSE 0) + 2 * BitOr(a \div 2, b \div 2)

\* a ^ b on single bits
BitXor(a, b) == (a + b) % 2

----------------------------------------------------------------------------
\* Module-level helpers

getBit(input, bitpos) == BitAnd(input, Shl(1, bitpos)) \div (2 ^ bitpos)

invBit(input) == IF input # 0 THEN 0 ELSE 1

CountOnesInData(input) ==
    Cardinality({n \in 0..7 : BitAnd(input, Shl(1, n)) # 0})

CountZerosInData(input) == 8 - CountOnesInData(input)

----------------------------------------------------------------------------
\* TMDS.Encode

\* Outcome of a call: raised, or the returned pair (q_out, self.encode_cnt),
\* together with the value self.encode_cnt is left with.
Raise(cnt) == [raised |-> TRUE, q_out |-> 0, cnt |-> cnt]

Return(q_out, cnt) == [raised |-> FALSE, q_out |-> q_out, cnt |-> cnt]

\* variant: the check for a negative byte is missing
EncodeRangeError_NoNegative(input, ctrl) == input > 255 \/ ctrl > 3

EncodeRangeError(input, ctrl) == input > 255 \/ input < 0 \/ ctrl > 3

\* variant: four ones select XNOR whatever bit 0 is
UseXnor_AtLeastFour(input) == CountOnesInData(input) >= 4

\* variant: the XOR chain is always used
UseXnor_Never(input) == FALSE

UseXnor(input) ==
    \/ CountOnesInData(input) > 4
    \/ (CountOnesInData(input) = 4 /\ BitAnd(input, Shl(1, 0)) = 0)

RECURSIVE MinimizeLoop(_, _, _, _)
\* variant: the previous bit is taken from the input, not from q_m
MinimizeLoop_FromInput(q_m, input, use_xnor, n) ==
    IF n > 7 THEN q_m
    ELSE LET x == BitXor(getBit(input, n - 1), getBit(input, n))
             bit == IF use_xnor THEN (IF x # 0 THEN 0 ELSE 1) ELSE x
         IN  MinimizeLoop(BitOr(q_m, Shl(bit, n)), input, use_xnor, n + 1)

MinimizeLoop(q_m, input, use_xnor, n) ==
    IF n > 7 THEN q_m
    ELSE LET x == BitXor(getBit(q_m, n - 1), getBit(input, n))
             bit == IF use_xnor THEN (IF x # 0 THEN 0 ELSE 1) ELSE x
         IN  MinimizeLoop(BitOr(q_m, Shl(bit, n)), input, use_xnor, n + 1)

\* q_m: the 8 minimized bits and bit 8 = 1 for XOR, 0 for XNOR
TransitionMinimize(input) ==
    LET use_xnor == UseXnor(input)
        q_m == MinimizeLoop(BitAnd(input, Shl(1, 0)), input, use_xnor, 1)
    IN  BitOr(q_m, IF use_xnor THEN 0 ELSE Shl(1, 8))

\* variant: the symbols of selectors 1 and 2 are exchanged
ControlSymbol_Swapped(ctrl) ==
    IF ctrl = 0 THEN \b1101010100
    ELSE IF ctrl = 1 THEN \b0101010100
    ELSE IF ctrl = 2 THEN \b0010101011
    ELSE \b1010101011

ControlSymbol(ctrl) ==
    IF ctrl = 0 THEN \b1101010100
    ELSE IF ctrl = 1 THEN \b0010101011
    ELSE IF ctrl = 2 THEN \b0101010100
    ELSE \b1010101011

\* variant: the control period does not reset the counter
ControlPeriod_NoReset(cnt, ctrl) == Return(ControlSymbol(ctrl), cnt)

ControlPeriod(cnt, ctrl) == Return(ControlSymbol(ctrl), 0)

\* variant: the test for as many ones as zeros is missing
IsCaseA_ZeroOnly(cnt, q_m) == cnt = 0

IsCaseA(cnt, q_m) ==
    \/ cnt = 0
    \/ CountOnesInData(BitAnd(q_m, 255)) = CountZerosInData(BitAnd(q_m, 255))

\* variant: the comparisons of ones and zeros are exchanged
IsCaseB_Exchanged(cnt, q_m) ==
    \/ (cnt > 0 /\ CountZerosInData(BitAnd(q_m, 255)) > CountOnesInData(BitAnd(q_m, 255)))
    \/ (cnt < 0 /\ CountOnesInData(BitAnd(q_m, 255)) > CountZerosInData(BitAnd(q_m, 255)))

\* variant: the branch for a negative counter is missing
IsCaseB_PositiveOnly(cnt, q_m) ==
    cnt > 0 /\ CountOnesInData(BitAnd(q_m, 255)) > CountZerosInData(BitAnd(q_m, 255))

\* variant: the sign of the counter is not looked at
IsCaseB_IgnoresSign(cnt, q_m) ==
    CountOnesInData(BitAnd(q_m, 255)) > CountZerosInData(BitAnd(q_m, 255))

IsCaseB(cnt, q_m) ==
    \/ (cnt > 0 /\ CountOnesInData(BitAnd(q_m, 255)) > CountZerosInData(BitAnd(q_m, 255)))
    \/ (cnt < 0 /\ CountZerosInData(BitAnd(q_m, 255)) > CountOnesInData(BitAnd(q_m, 255)))

CaseA(cnt, q_m) ==
    LET q9 == Shl(invBit(getBit(q_m, 8)), 9)
        q8 == BitOr(q9, BitAnd(q_m, Shl(1, 8)))
        q_out == BitOr(q8, IF getBit(q_m, 8) # 0
                           THEN BitAnd(q_m, 255)
                           ELSE BitAnd(BitNot(q_m), 255))
    IN  IF getBit(q_m, 8) # 0
        THEN Return(q_out, cnt + CountOnesInData(BitAnd(q_m, 255))
                               - CountZerosInData(BitAnd(q_m, 255)))
        ELSE Return(q_out, cnt + CountZerosInData(BitAnd(q_m, 255))
                               - CountOnesInData(BitAnd(q_m, 255)))

\* variant: the counter update leaves out the 2 * q_m[8] term
CaseB_NoFlagTerm(cnt, q_m) ==
    LET q9 == Shl(1, 9)
        q8 == BitOr(q9, BitAnd(q_m, Shl(1, 8)))
        q_out == BitOr(q8, BitAnd(BitNot(BitAnd(q_m, 255)), 255))
    IN  Return(q_out, cnt + CountZerosInData(BitAnd(q_m, 255))
                          - CountOnesInData(BitAnd(q_m, 255)))

\* variant: the data bits are sent as they are
CaseB_KeepsData(cnt, q_m) ==
    LET q9 == Shl(1, 9)
        q8 == BitOr(q9, BitAnd(q_m, Shl(1, 8)))
        q_out == BitOr(q8, BitAnd(q_m, 255))
    IN  Return(q_out, cnt + (getBit(q_m, 8) * 2)
                          + CountZerosInData(BitAnd(q_m, 255))
                          - CountOnesInData(BitAnd(q_m, 255)))

CaseB(cnt, q_m) ==
    LET q9 == Shl(1, 9)
        q8 == BitOr(q9, BitAnd(q_m, Shl(1, 8)))
        q_out == BitOr(q8, BitAnd(BitNot(BitAnd(q_m, 255)), 255))
    IN  Return(q_out, cnt + (getBit(q_m, 8) * 2)
                          + CountZerosInData(BitAnd(q_m, 255))
                          - CountOnesInData(BitAnd(q_m, 255)))

\* variant: the counter update leaves out the 2 * ~q_m[8] term
CaseC_NoFlagTerm(cnt, q_m) ==
    LET q9 == Shl(0, 9)
        q8 == BitOr(q9, BitAnd(q_m, Shl(1, 8)))
        q_out == BitOr(q8, BitAnd(q_m, 255))
    IN  Return(q_out, cnt + CountOnesInData(BitAnd(q_m, 255))
                          - CountZerosInData(BitAnd(q_m, 255)))

\* variant: the counter update takes q_m[8] where it should take its inverse
CaseC_FlagNotInverted(cnt, q_m) ==
    LET q9 == Shl(0, 9)
        q8 == BitOr(q9, BitAnd(q_m, Shl(1, 8)))
        q_out == BitOr(q8, BitAnd(q_m, 255))
    IN  Return(q_out, cnt + (0 - (getBit(q_m, 8) * 2))
                          + CountOnesInData(BitAnd(q_m, 255))
                          - CountZerosInData(BitAnd(q_m, 255)))

CaseC(cnt, q_m) ==
    LET q9 == Shl(0, 9)
        q8 == BitOr(q9, BitAnd(q_m, Shl(1, 8)))
        q_out == BitOr(q8, BitAnd(q_m, 255))
    IN  Return(q_out, cnt + (0 - (invBit(getBit(q_m, 8)) * 2))
                          + CountOnesInData(BitAnd(q_m, 255))
                          - CountZerosInData(BitAnd(q_m, 255)))

DataPeriod(cnt, q_m) ==
    IF IsCaseA(cnt, q_m) THEN CaseA(cnt, q_m)
    ELSE IF IsCaseB(cnt, q_m) THEN CaseB(cnt, q_m)
    ELSE CaseC(cnt, q_m)

\* variant: a non-zero selector is taken as a control period
EncodeBody_CtrlSelects(cnt, input, DE, ctrl) ==
    IF EncodeRangeError(input, ctrl) THEN Raise(cnt)
    ELSE LET q_m == TransitionMinimize(input)
         IN  IF ~DE \/ ctrl # 0 THEN ControlPeriod(cnt, ctrl)
             ELSE DataPeriod(cnt, q_m)

EncodeBody(cnt, input, DE, ctrl) ==
    IF EncodeRangeError(input, ctrl) THEN Raise(cnt)
    ELSE LET q_m == TransitionMinimize(input)
         IN  IF ~DE THEN ControlPeriod(cnt, ctrl)
             ELSE DataPeriod(cnt, q_m)

----------------------------------------------------------------------------
\* TMDS.Decode

\* variant: the limit is 9 bits
DecodeRangeError_NineBits(input) == input >= 2 ^ 9

DecodeRangeError(input) == input >= 2 ^ 10

\* variant: bit 9 is not looked at
DecodeUninvert_Never(input) == input

\* undo the DC-balance inversion flagged by bit 9
DecodeUninvert(input) ==
    IF BitAnd(input, Shl(1, 9)) # 0
    THEN BitOr(BitAnd(input, 768), BitAnd(BitNot(input), 255))
    ELSE input

RECURSIVE DecodeLoop(_, _, _, _)
DecodeLoop(q, input, use_xnor, n) ==
    IF n > 7 THEN q
    ELSE LET x == BitXor(getBit(input, n), getBit(input, n - 1))
             bit == IF use_xnor THEN (IF x # 0 THEN 0 ELSE 1) ELSE x
         IN  DecodeLoop(BitOr(q, Shl(bit, n)), input, use_xnor, n + 1)

DecodeBody(cnt, input) ==
    IF DecodeRangeError(input) THEN Raise(cnt)
    ELSE LET inp == DecodeUninvert(input)
             use_xnor == BitAnd(inp, Shl(1, 8)) = 0
         IN  Return(DecodeLoop(BitAnd(inp, Shl(1, 0)), inp, use_xnor, 1), cnt)

----------------------------------------------------------------------------
\* The caller

NoCall == [op |-> "none", input |-> 0, DE |-> FALSE, ctrl |-> 0,
           cnt_before |-> 0, raised |-> FALSE, q_out |-> 0, cnt_out |-> 0]

\* ones minus zeros among the 10 bits of a symbol
SymbolDisparity(symbol) ==
    LET ones == Cardinality({n \in 0..9 : getBit(symbol, n) = 1})
    IN  ones - (10 - ones)

Init ==
    /\ encode_cnt = 0
    /\ pc = "idle"
    /\ call = NoCall
    /\ q_in = <<>>
    /\ stream_disp = 0

Encode(input, DE, ctrl) ==
    /\ pc = "idle"
    /\ LET r == EncodeBody(encode_cnt, input, DE, ctrl)
       IN  /\ encode_cnt' = r.cnt
           /\ call' = [op |-> "Encode", input |-> input, DE |-> DE, ctrl |-> ctrl,
                       cnt_before |-> encode_cnt, raised |-> r.raised,
                       q_out |-> r.q_out,
                       cnt_out |-> IF r.raised THEN 0 ELSE r.cnt]
           /\ stream_disp' = IF r.raised THEN stream_disp
                             ELSE IF ~DE THEN 0
                             ELSE stream_disp + SymbolDisparity(r.q_out)
    /\ pc' = "returned"
    /\ UNCHANGED q_in

Decode(input) ==
    /\ pc = "idle"
    /\ LET r == DecodeBody(encode_cnt, input)
       IN  /\ encode_cnt' = r.cnt
           /\ call' = [op |-> "Decode", input |-> input, DE |-> FALSE, ctrl |-> 0,
                       cnt_before |-> encode_cnt, raised |-> r.raised,
                       q_out |-> r.q_out, cnt_out |-> 0]
    /\ pc' = "returned"
    /\ UNCHANGED <<q_in, stream_disp>>

\* q_in = tmds.Decode(q_out) on the symbol Encode just returned
DecodeEncoded ==
    /\ pc = "returned"
    /\ call.op = "Encode"
    /\ ~call.raised
    /\ LET r == DecodeBody(encode_cnt, call.q_out)
       IN  /\ encode_cnt' = r.cnt
           /\ q_in' = IF r.raised THEN <<>> ELSE <<r.q_out>>
    /\ pc' = "checked"
    /\ UNCHANGED <<call, stream_disp>>

\* the caller moves on; the results of the call go out of scope
NextRow ==
    /\ pc \in {"returned", "checked"}
    /\ pc' = "idle"
    /\ call' = NoCall
    /\ q_in' = <<>>
    /\ UNCHANGED <<encode_cnt, stream_disp>>

Next ==
    \/ \E input \in ByteArgs, DE \in BOOLEAN, ctrl \in CtrlArgs : Encode(input, DE, ctrl)
    \/ \E input \in SymbolArgs : Decode(input)
    \/ DecodeEncoded
    \/ NextRow

Spec == Init /\ [][Next]_vars

----------------------------------------------------------------------------
\* Properties

EncodeReturned == call.op = "Encode" /\ ~call.raised

DataReturned == EncodeReturned /\ call.DE

ControlReturned == EncodeReturned /\ ~call.DE

\* C1: the symbol returned by a data-period Encode of a byte, under any
\* selector and from any reachable counter, is decoded back to that byte.
C1_RoundTrip ==
    (pc = "checked" /\ call.DE) => q_in = <<call.input>>

C1_Witness ==
    /\ pc = "checked"
    /\ call.DE
    /\ call.ctrl = 3
    /\ call.cnt_before = 8
    /\ getBit(call.q_out, 9) = 1
    /\ q_in = <<call.input>>

\* C2: runs of data-period calls start at counter 0, and the counter never
\* leaves -8..8.
C2_BoundedDisparity == encode_cnt >= 0 - 8 /\ encode_cnt <= 8

C2_Witness ==
    /\ DataReturned
    /\ call.ctrl \in 0..3
    /\ call.cnt_before # 0
    /\ encode_cnt = 8

\* C3: a control-period Encode returns the fixed symbol of its selector, for
\* every byte and every counter, and the four symbols are pairwise distinct.
C3_ControlFidelity ==
    /\ (ControlReturned /\ call.ctrl = 0) => call.q_out = \b1101010100
    /\ (ControlReturned /\ call.ctrl = 1) => call.q_out = \b0010101011
    /\ (ControlReturned /\ call.ctrl = 2) => call.q_out = \b0101010100
    /\ (ControlReturned /\ call.ctrl = 3) => call.q_out = \b1010101011
    /\ \A c1, c2 \in 0..3 : c1 # c2 => ControlSymbol(c1) # ControlSymbol(c2)

C3_Witness ==
    /\ ControlReturned
    /\ call.ctrl = 2
    /\ call.input = 255
    /\ call.cnt_before # 0
    /\ call.q_out = \b0101010100

\* C4: a fresh encoder has counter 0, and right after a control-period
\* Encode that returned, the counter is 0 whatever it was before.
C4_DisparityReset ==
    /\ encode_cnt = 0
    /\ [](ControlReturned => (encode_cnt = 0 /\ call.cnt_out = 0))

C4_Witness ==
    /\ ControlReturned
    /\ call.ctrl \in 0..3
    /\ pc = "returned"
    /\ call.cnt_before = 0 - 8
    /\ encode_cnt = 0

\* C5: Encode with byte > 255, byte < 0 or selector > 3, and Decode with
\* symbol >= 1024, raise in either mode and leave the counter as it was.
C5_RangeRejection ==
    /\ (call.op = "Encode" /\ (call.input > 255 \/ call.input < 0 \/ call.ctrl > 3))
          => (call.raised /\ encode_cnt = call.cnt_before)
    /\ (call.op = "Decode" /\ call.input >= 1024)
          => (call.raised /\ encode_cnt = call.cnt_before)

C5_Witness ==
    /\ call.op = "Encode"
    /\ call.input < 0
    /\ call.ctrl \in 0..3
    /\ ~call.DE
    /\ call.raised
    /\ call.cnt_before = 6
    /\ encode_cnt = 6

\* C6: every Encode whose selector is outside 0..3, negative ones included,
\* raises and leaves the counter as it was.
C6_SelectorPrecondition ==
    (call.op = "Encode" /\ call.ctrl \notin 0..3)
        => (call.raised /\ encode_cnt = call.cnt_before)

\* C7: every Decode whose symbol is outside 0..1023, negative ones included,
\* raises instead of returning a byte.
C7_DecodePrecondition ==
    (call.op = "Decode" /\ call.input \notin 0..1023) => call.raised

\* C8: the counter is the sum of (ones - zeros) over the 10 bits of every
\* data symbol emitted since construction or the last control period.
C8_TrueDisparity == encode_cnt = stream_disp

C8_Witness ==
    /\ DataReturned
    /\ call.ctrl \in 0..3
    /\ call.cnt_before # 0
    /\ getBit(call.q_out, 9) = 1
    /\ getBit(call.q_out, 8) = 1
    /\ encode_cnt # 0
    /\ encode_cnt = stream_disp

\* C9: in a data period the selector is ignored: the same byte from the same
\* counter gives the same symbol and the same counter under every selector.
C9_SelectorIgnored ==
    (call.op = "Encode" /\ call.DE /\ pc = "returned"
        /\ call.input \in 0..255 /\ call.ctrl \in 0..3) =>
        \A c2 \in 0..3 :
            /\ ~call.raised
            /\ EncodeBody(call.cnt_before, call.input, TRUE, c2)
                   = Return(call.q_out, encode_cnt)

C9_Witness ==
    /\ DataReturned
    /\ pc = "returned"
    /\ call.ctrl = 3
    /\ call.cnt_before # 0
    /\ getBit(call.q_out, 9) = 0
    /\ getBit(call.q_out, 8) = 0

\* C10: Decode of any symbol in 0..1023 returns a byte in 0..255 that is the
\* one a fresh decoder gives for it, and leaves the counter as it was.
C10_DecodeStateless ==
    /\ (call.op = "Decode" /\ call.input \in 0..1023) =>
          /\ ~call.raised
          /\ call.q_out \in 0..255
          /\ call.q_out = DecodeBody(0, call.input).q_out
          /\ encode_cnt = call.cnt_before
    /\ pc = "checked" =>
          /\ q_in # <<>>
          /\ q_in[1] \in 0..255
          /\ q_in[1] = DecodeBody(0, call.q_out).q_out
          /\ encode_cnt = call.cnt_out

C10_Witness ==
    /\ call.op = "Decode"
    /\ call.input = \b1101010100
    /\ call.cnt_before # 0
    /\ ~call.raised
    /\ call.q_out \in 0..255

----------------------------------------------------------------------------
\* Properties of the data-period algorithm

\* bit n of x, and the number of ones among bits 0..7 of x
Bit(x, n) == (x \div (2 ^ n)) % 2

Ones8(x) == Cardinality({n \in 0..7 : Bit(x, n) = 1})

Abs(x) == IF x < 0 THEN 0 - x ELSE x

\* the minimized word of the byte just encoded, its ones and zeros over
\* q_m[0:7], and what the call added to the counter
CallQm == TransitionMinimize(call.input)

QmOnes == Ones8(CallQm)

QmZeros == 8 - QmOnes

Delta == call.cnt_out - call.cnt_before

InCaseA == call.cnt_before = 0 \/ QmOnes = QmZeros

InCaseB ==
    \/ (call.cnt_before > 0 /\ QmOnes > QmZeros)
    \/ (call.cnt_before < 0 /\ QmZeros > QmOnes)

InCaseC == ~InCaseA /\ ~InCaseB

C12_CaseA ==
    (DataReturned /\ InCaseA) =>
        /\ Bit(call.q_out, 9) = 1 - Bit(call.q_out, 8)
        /\ Bit(call.q_out, 8) = Bit(CallQm, 8)
        /\ call.q_out % 256 = IF Bit(call.q_out, 8) = 1
                              THEN CallQm % 256
                              ELSE 255 - (CallQm % 256)
        /\ Delta = IF Bit(call.q_out, 8) = 1
                   THEN QmOnes - QmZeros
                   ELSE QmZeros - QmOnes

C12_Witness ==
    /\ DataReturned
    /\ call.ctrl \in 0..3
    /\ call.cnt_before # 0
    /\ QmOnes = 4
    /\ Bit(call.q_out, 8) = 0
    /\ Bit(call.q_out, 9) = 1
    /\ Delta = 0

\* C13: with counter > 0 and more ones than zeros in q_m[0:7], or counter
\* < 0 and more zeros than ones, the symbol has bit 9 = 1, bit 8 = q_m[8],
\* data = inverse of q_m[0:7], and the counter moves by
\* 2 * bit8 + zeros - ones.
C13_CaseB ==
    (DataReturned /\ InCaseB) =>
        /\ Bit(call.q_out, 9) = 1
        /\ Bit(call.q_out, 8) = Bit(CallQm, 8)
        /\ call.q_out % 256 = 255 - (CallQm % 256)
        /\ Delta = 2 * Bit(CallQm, 8) + QmZeros - QmOnes

C13_Witness ==
    /\ DataReturned
    /\ call.ctrl \in 0..3
    /\ call.cnt_before > 0
    /\ QmOnes > QmZeros
    /\ Bit(call.q_out, 9) = 1
    /\ Bit(call.q_out, 8) = 0

\* C14: with a non-zero counter, unbalanced q_m[0:7] and the majority bit
\* opposing the counter's sign, the symbol has bit 9 = 0, bit 8 = q_m[8],
\* data = q_m[0:7], and the counter moves by -2 * (1 - bit8) + ones - zeros.
C14_CaseC ==
    (DataReturned /\ InCaseC) =>
        /\ Bit(call.q_out, 9) = 0
        /\ Bit(call.q_out, 8) = Bit(CallQm, 8)
        /\ call.q_out % 256 = CallQm % 256
        /\ Delta = (0 - 2 * (1 - Bit(CallQm, 8))) + QmOnes - QmZeros

C14_Witness ==
    /\ DataReturned
    /\ call.ctrl \in 0..3
    /\ call.cnt_before < 0
    /\ QmOnes > QmZeros
    /\ Bit(call.q_out, 9) = 0
    /\ Bit(call.q_out, 8) = 1

\* C15 as stated: in Case B and Case C the counter moves by +(ones - zeros)
\* or -(ones - zeros); the 2 * bit8 and 2 * (NOT bit8) terms change nothing.
C15_ClosedFormOriginal ==
    (DataReturned /\ call.ctrl \in 0..3 /\ ~InCaseA) =>
        (Delta = QmOnes - QmZeros \/ Delta = QmZeros - QmOnes)

\* C15 amended: in Case B the counter moves by zeros - ones when bit 8 is 0
\* and by zeros - ones + 2 when bit 8 is 1; in Case C by ones - zeros when
\* bit 8 is 1 and by ones - zeros - 2 when bit 8 is 0.
C15_ClosedForm ==
    /\ (DataReturned /\ InCaseB /\ Bit(call.q_out, 8) = 0) => Delta = QmZeros - QmOnes
    /\ (DataReturned /\ InCaseB /\ Bit(call.q_out, 8) = 1) => Delta = QmZeros - QmOnes + 2
    /\ (DataReturned /\ InCaseC /\ Bit(call.q_out, 8) = 1) => Delta = QmOnes - QmZeros
    /\ (DataReturned /\ InCaseC /\ Bit(call.q_out, 8) = 0) => Delta = QmOnes - QmZeros - 2

C15_Witness ==
    /\ DataReturned
    /\ call.ctrl \in 0..3
    /\ InCaseC
    /\ Bit(call.q_out, 8) = 0
    /\ Delta = QmOnes - QmZeros - 2
    /\ Delta # QmZeros - QmOnes

\* C16: in Case B or Case C the counter after the call is no further from
\* zero than the other inversion choice would have left it.
C16_NoWorseThanAlternative ==
    (DataReturned /\ ~InCaseA) =>
        LET b8 == Bit(CallQm, 8)
            inverted == call.cnt_before + 2 * b8 + QmZeros - QmOnes
            plain == call.cnt_before - 2 * (1 - b8) + QmOnes - QmZeros
        IN  IF Bit(call.q_out, 9) = 1
            THEN call.cnt_out = inverted /\ Abs(call.cnt_out) <= Abs(plain)
            ELSE call.cnt_out = plain /\ Abs(call.cnt_out) <= Abs(inverted)

C16_Witness ==
    /\ DataReturned
    /\ call.ctrl \in 0..3
    /\ ~InCaseA
    /\ call.cnt_before = 0 - 2
    /\ Bit(call.q_out, 9) = 1
    /\ Abs(call.cnt_out) < Abs(call.cnt_before - 2 * (1 - Bit(CallQm, 8)) + QmOnes - QmZeros)

\* C17: a data-period call made with a non-zero counter adds nothing or
\* adds an amount of the sign opposite to the counter's.
C17_NeverFurther ==
    /\ (DataReturned /\ call.cnt_before > 0) => Delta <= 0
    /\ (DataReturned /\ call.cnt_before < 0) => Delta >= 0

C17_Witness ==
    /\ DataReturned
    /\ call.ctrl \in 0..3
    /\ call.cnt_before = 4
    /\ Delta < 0
    /\ call.cnt_out < 0

\* C18: no data-period Encode returns one of the four control symbols.
\* (The nearest data symbols differ from a control symbol in two bits.)
C18_DataControlDisjoint ==
    DataReturned =>
        call.q_out \notin {\b1101010100, \b0010101011, \b0101010100, \b1010101011}

C18_Witness ==
    /\ DataReturned
    /\ call.ctrl \in 0..3
    /\ call.cnt_before # 0
    /\ call.q_out = \b1111110100

\* C19: bits 7..0 of a data symbol have at most 3 places n in 1..7 where
\* bit n differs from bit n - 1.
C19_TransitionBound ==
    DataReturned =>
        Cardinality({n \in 1..7 : Bit(call.q_out, n) # Bit(call.q_out, n - 1)}) <= 3

C19_Witness ==
    /\ DataReturned
    /\ call.ctrl \in 0..3
    /\ call.cnt_before # 0
    /\ Ones8(call.input) = 4
    /\ Cardinality({n \in 1..7 : Bit(call.input, n) # Bit(call.input, n - 1)}) = 7
    /\ Cardinality({n \in 1..7 : Bit(call.q_out, n) # Bit(call.q_out, n - 1)}) = 3

====
